---- MODULE Spec2Model ----
(***************************************************************************)
(* Model of the inspector page of bluepea                                  *)
(* (src/src/bluepea/static/pylib/inspector.py): the Table component        *)
(* (data, filter, sort, selection), the table refreshes of the             *)
(* specialised tables and the refresh coordinator of Tabs.                 *)
(*                                                                         *)
(* Conventions.                                                            *)
(*  - None is the empty sequence << >>; an optional value v is << v >>.    *)
(*  - A row object is a record [uid, date, oid] as delivered by the        *)
(*    server, plus the key _uid once _setData has inserted it.  oid is the *)
(*    identity of the JavaScript object: << round, collection, index >>,   *)
(*    the fetch that delivered it and its place in that response.          *)
(*  - The _selected property of row objects is kept per table in           *)
(*    "flagged", the set of oids of the objects that carry the property.   *)
(*  - lastCall of a table is the last method called on it, with its       *)
(*    arguments: a record for the properties, which no operation reads.    *)
(*  - A promise handle is the number of the refresh round that made it.    *)
(*  - The JavaScript event loop runs the callbacks of a settled promise    *)
(*    (the .then of the fetch, Promise.all, done) to completion before the *)
(*    next event: a fetch's completion is one atomic step.                 *)
(***************************************************************************)
EXTENDS Integers, Sequences, FiniteSets, TLC

(***************************************************************************)
(* Bounds of the model.                                                    *)
(***************************************************************************)
\* Number of refresh rounds (Tabs.refresh that starts fetches, or a table's
\* refresh) a behaviour may start.
MaxRefreshes == 2
\* Longest batch of rows the server delivers in TableSpec.
MaxBatch == 3
\* Table.max_size (1000 in the source, line 246) scaled to the batches of
\* TableSpec: the table is checked for every cap from SmallMaxSize, which
\* cuts the longest batches, to MaxBatch, which holds them all.
SmallMaxSize == 2
\* Table.max_size scaled to the collections of Spec, where it is never
\* reached (as with 1000 rows in the source).
LargeMaxSize == 6
\* Number of fetches that may fail in a behaviour.
MaxFailures == 1

MaxSizes == SmallMaxSize..MaxBatch

None == << >>

(***************************************************************************)
(* Tabs.__init__ (line 695): the five tabs, in order, and the collections  *)
(* each table fetches on refresh (lines 456-459, 484-487, 508-511,         *)
(* 528-531, 547-552).                                                      *)
(***************************************************************************)
tabs == << "entities", "issuants", "offers", "messages", "anonmsgs" >>

TabNames == { tabs[i] : i \in 1..Len(tabs) }

Collections == { "agents", "things", "issuants", "offers", "messages", "anonMsgs" }

CollectionsOf(t) ==
    CASE t = "entities" -> { "agents", "things" }
      [] t = "issuants" -> { "issuants" }
      [] t = "offers"   -> { "offers" }
      [] t = "messages" -> { "messages" }
      [] t = "anonmsgs" -> { "anonMsgs" }

TableOf(c) == CHOOSE t \in TabNames : c \in CollectionsOf(t)

\* Every callback clearing, the entities callbacks too.
ClearArgAlways(c) == TRUE

\* The clear argument of the _setData call in the .then callback of the
\* fetch of collection c: clear=False for the two entities fetches
\* (lines 550-551), the default True elsewhere.
ClearArg(c) == c \notin { "agents", "things" }

Rounds == 1..MaxRefreshes

(***************************************************************************)
(* Rows.  Field values: uid is a one-letter string, date a number.         *)
(***************************************************************************)
Alphabet == << "a", "b", "c", "d", "e", "f", "g", "h", "i" >>

\* Position of a one-letter string in the alphabet: the order of strings.
Ord(s) == CHOOSE i \in 1..Len(Alphabet) : Alphabet[i] = s

FieldNames == { "uid", "date" }

\* The rows the server may hold for the table of TableSpec: the rows of the
\* sorting scenario (a:1, b:3, c:2) and a second c row whose date ties
\* with a.
Payloads ==
    { [uid |-> "a", date |-> 1], [uid |-> "b", date |-> 3],
      [uid |-> "c", date |-> 2], [uid |-> "c", date |-> 1] }

\* Sequences of at most n payloads with pairwise distinct uids.
RECURSIVE BatchesUpTo(_)
BatchesUpTo(n) ==
    IF n = 0 THEN { << >> }
    ELSE LET shorter == BatchesUpTo(n - 1)
         IN shorter \cup
            { Append(b, p) : b \in { s \in shorter : Len(s) = n - 1 },
                             p \in Payloads }

DistinctUids(b) == \A i, j \in 1..Len(b) : i # j => b[i].uid # b[j].uid

Batches == { b \in BatchesUpTo(MaxBatch) : DistinctUids(b) }

\* The collections the server holds in Spec: three agents, two things
\* (the composite scenario), and short collections for the other tables.
ServerRows(c) ==
    CASE c = "agents"   -> << [uid |-> "a", date |-> 1], [uid |-> "b", date |-> 3],
                              [uid |-> "c", date |-> 2] >>
      [] c = "things"   -> << [uid |-> "d", date |-> 2], [uid |-> "e", date |-> 1] >>
      [] c = "issuants" -> << [uid |-> "f", date |-> 1] >>
      [] c = "offers"   -> << [uid |-> "g", date |-> 1] >>
      [] c = "messages" -> << [uid |-> "h", date |-> 2], [uid |-> "i", date |-> 1] >>
      [] c = "anonMsgs" -> << >>

\* The row objects parsed from the response of the fetch of collection c
\* started in round h.
MakeRows(batch, h, c) ==
    [ i \in 1..Len(batch) |->
        [uid |-> batch[i].uid, date |-> batch[i].date, oid |-> << h, c, i >>] ]

(***************************************************************************)
(* Searcher (lines 620-687)                                                *)
(*                                                                         *)
(* A string is the sequence of its characters.  A JSON value is a record   *)
(* with the fields type, str, num, keys and items: a string ("str"), a     *)
(* number ("num"), a boolean ("bool", num 0 or 1), null ("null"), a list   *)
(* of values ("list", items) or a mapping ("dict", the i-th key in keys    *)
(* with the i-th value in items).                                          *)
(***************************************************************************)
Quote == "\""

\* The lower-case form of a character.
LowerChar(ch) ==
    CASE ch = "A" -> "a"
      [] ch = "C" -> "c"
      [] ch = "E" -> "e"
      [] ch = "T" -> "t"
      [] ch = "X" -> "x"
      [] OTHER    -> ch

\* str.lower()
lower(s) == [ i \in 1..Len(s) |-> LowerChar(s[i]) ]

\* str.startswith and str.endswith for a one-character argument.
startswith(s, ch) == Len(s) >= 1 /\ s[1] = ch

endswith(s, ch) == Len(s) >= 1 /\ s[Len(s)] = ch

\* needle in hay, for strings.
In(needle, hay) ==
    \E i \in 0..(Len(hay) - Len(needle)) : SubSeq(hay, i + 1, i + Len(needle)) = needle

Str(s) == [type |-> "str", str |-> s, num |-> 0, keys |-> << >>, items |-> << >>]

Num(n) == [type |-> "num", str |-> << >>, num |-> n, keys |-> << >>, items |-> << >>]

Bool(b) == [type |-> "bool", str |-> << >>, num |-> IF b THEN 1 ELSE 0,
            keys |-> << >>, items |-> << >>]

Null == [type |-> "null", str |-> << >>, num |-> 0, keys |-> << >>, items |-> << >>]

List(items) == [type |-> "list", str |-> << >>, num |-> 0, keys |-> << >>, items |-> items]

Dict(keys, items) == [type |-> "dict", str |-> << >>, num |-> 0, keys |-> keys, items |-> items]

\* Searcher.__init__, lines 628-630.
NewSearcher == [searchTerm |-> None, caseSensitive |-> FALSE]

\* setSearch that lower-cases the term in both modes.
SetSearchAlwaysLower(s, term) ==
    LET t  == IF term = None THEN << >> ELSE term[1]
        cs == startswith(t, Quote) /\ endswith(t, Quote)
    IN [searchTerm |-> << IF cs THEN lower(SubSeq(t, 2, Len(t) - 1)) ELSE lower(t) >>,
        caseSensitive |-> cs]

\* Searcher.setSearch, lines 632-647.  term is None or << string >>.
setSearch(s, term) ==
    LET t  == IF term = None THEN << >> ELSE term[1]
        cs == startswith(t, Quote) /\ endswith(t, Quote)
    IN [searchTerm |-> << IF cs THEN SubSeq(t, 2, Len(t) - 1) ELSE lower(t) >>,
        caseSensitive |-> cs]

\* Searcher._checkPrimitive, lines 649-657.
_checkPrimitive(s, item) ==
    IF item.type = "str"
    THEN In(s.searchTerm[1], IF s.caseSensitive THEN item.str ELSE lower(item.str))
    ELSE FALSE

RECURSIVE _checkAny(_, _), search(_, _)
\* Searcher._checkAny, lines 659-671.
_checkAny(s, value) ==
    IF value.type = "dict" THEN search(s, value)
    ELSE IF value.type = "list"
         THEN \E i \in 1..Len(value.items) : _checkAny(s, value.items[i])
         ELSE _checkPrimitive(s, value)

\* search that looks into the private keys too.
SearchPrivateToo(s, obj) ==
    \E i \in 1..Len(obj.keys) : _checkAny(s, obj.items[i])

\* Searcher.search, lines 673-687: the keys that start with an underscore
\* are skipped.
search(s, obj) ==
    \E i \in 1..Len(obj.keys) :
        /\ ~startswith(obj.keys[i], "_")
        /\ _checkAny(s, obj.items[i])

\* The bound method self.searcher.search of the searcher in state s.  Two
\* bound methods of one object are equal (func != self.filter is False);
\* the searcher is shared, so the method sees the state the searcher is
\* in when it is called.
BoundSearch(s) == [self |-> s]

\* A row of a table as the value search walks: its keys uid, date and the
\* private _uid.
RowValue(obj) ==
    Dict(<< << "u", "i", "d" >>, << "d", "a", "t", "e" >>, << "_", "u", "i", "d" >> >>,
         << Str(<< obj.uid >>), Num(obj.date), Num(obj._uid) >>)

VARIABLES
    tables,          \* tab name -> the Table object of that tab
    refreshing,      \* Tabs._refreshing
    refreshPromise,  \* Tabs._refreshPromise: None or << handle >>
    promiseState,    \* handle -> state of the aggregate Promise.all
    fetchState,      \* round -> collection -> state of that fetch
    returned,        \* what the last call of Tabs.refresh returned
    searcher,        \* the Searcher object (Tabs.searcher)
    searchCall       \* the last call its user made of a Searcher method:
                     \* << name, argument, result >>, or None

vars == << tables, refreshing, refreshPromise, promiseState, fetchState, returned,
           searcher, searchCall >>

searchVars == << searcher, searchCall >>

tabsVars == << refreshing, refreshPromise, promiseState, returned >>

(***************************************************************************)
(* Table                                                                   *)
(***************************************************************************)
\* server.clearArray: empties the array in place.
clearArray(arr) == << >>

\* Table.__init__, lines 245-263.
NewTable(maxSize) ==
    [ max_size |-> maxSize, data |-> << >>, _shownData |-> << >>,
      _selected |-> None, detailSelected |-> << >>, flagged |-> {},
      filter |-> None, sortField |-> None, reversed |-> FALSE,
      total |-> 0, shown |-> 0, lastCall |-> << "__init__" >> ]

\* The table after a method call, with the call recorded.
Called(tb, call) == [tb EXCEPT !.lastCall = call]

\* Table._stringify, lines 265-274: the JSON text of the object without the
\* keys that start with an underscore (_uid, _selected); the text is the
\* sequence of its keys and values.  The empty text "" is << >>.
_stringify(obj) == << "uid", obj.uid, "date", obj.date >>

\* Table._getField, lines 384-388.
_getField(obj, field) == obj[field]

\* The order of two values of a field: numbers by <=, strings by the
\* alphabet.
ValueLE(field, x, y) == IF field = "date" THEN x <= y ELSE Ord(x) <= Ord(y)

\* A sort that is not stable when reversed: an ascending sort followed by a
\* reversal of the list, which flips the rows with equal keys.
SortInsertFlipTies(sorted, x, field, rev) ==
    LET kx == _getField(x, field)
        InFront(y) ==
            LET ky == _getField(y, field)
            IN IF rev THEN ky # kx /\ ValueLE(field, kx, ky)
               ELSE ValueLE(field, ky, kx)
        k == Cardinality({ i \in 1..Len(sorted) : InFront(sorted[i]) })
    IN SubSeq(sorted, 1, k) \o << x >> \o SubSeq(sorted, k + 1, Len(sorted))

\* list.sort(key=..., reverse=...): a stable sort; with reverse the keys
\* descend and rows with equal keys still keep their order.  x is inserted
\* behind every row that must stay in front of it.
SortInsert(sorted, x, field, rev) ==
    LET kx == _getField(x, field)
        InFront(y) ==
            LET ky == _getField(y, field)
            IN IF rev THEN ValueLE(field, kx, ky) ELSE ValueLE(field, ky, kx)
        k == Cardinality({ i \in 1..Len(sorted) : InFront(sorted[i]) })
    IN SubSeq(sorted, 1, k) \o << x >> \o SubSeq(sorted, k + 1, Len(sorted))

RECURSIVE SortFrom(_, _, _, _)
SortFrom(sorted, rest, field, rev) ==
    IF rest = << >> THEN sorted
    ELSE SortFrom(SortInsert(sorted, Head(rest), field, rev), Tail(rest), field, rev)

\* Table._sortData, lines 358-362.
_sortData(tb) ==
    IF tb.sortField = None THEN tb
    ELSE [tb EXCEPT !._shownData = SortFrom(<< >>, @, tb.sortField[1], tb.reversed)]

\* A filter function applied to a row.  A plain predicate is identified by
\* the set of uids it accepts; the other filter is the bound method
\* searcher.search (line 746, 762).
ApplyFilter(func, obj) ==
    IF "accepts" \in DOMAIN func THEN obj.uid \in func.accepts
    ELSE search(func.self, RowValue(obj))

\* The loop of Table._processData, lines 372-380.
RECURSIVE ProcessLoop(_, _, _)
ProcessLoop(tb, rest, acc) ==
    IF rest = << >> \/ Len(acc) >= tb.max_size THEN acc
    ELSE IF tb.filter # None /\ ~ApplyFilter(tb.filter[1], Head(rest))
         THEN ProcessLoop(tb, Tail(rest), acc)
         ELSE ProcessLoop(tb, Tail(rest), Append(acc, Head(rest)))

\* _processData without its closing call of _sortData.
ProcessDataUnsorted(tb) ==
    LET acc == ProcessLoop(tb, tb.data, clearArray(tb._shownData))
    IN [tb EXCEPT !._shownData = acc, !.shown = Len(acc)]

\* Table._processData, lines 364-382.
_processData(tb) ==
    LET acc == ProcessLoop(tb, tb.data, clearArray(tb._shownData))
    IN _sortData([tb EXCEPT !._shownData = acc, !.shown = Len(acc)])

\* clear that forgets to reset the row counter.
ClearKeepsTotal(tb) == [tb EXCEPT !.data = clearArray(@)]

\* Table.clear, lines 308-313.
clear(tb) == [tb EXCEPT !.total = 0, !.data = clearArray(@)]

\* The loop of Table._setData, lines 332-335.
RECURSIVE SetDataLoop(_, _)
SetDataLoop(tb, rows) ==
    IF rows = << >> THEN tb
    ELSE LET d == Head(rows)
             datum == [uid |-> d.uid, date |-> d.date, oid |-> d.oid, _uid |-> tb.total]
         IN SetDataLoop([tb EXCEPT !.data = Append(@, datum), !.total = @ + 1],
                        Tail(rows))

\* Table._setData, lines 325-336.
_setData(tb, rows, clr) ==
    _processData(SetDataLoop(IF clr THEN clear(tb) ELSE tb, rows))

\* Table.setFilter, lines 339-342.
setFilter(tb, func) ==
    IF func # tb.filter THEN _processData([tb EXCEPT !.filter = func]) ELSE tb

\* Table.setSort, lines 344-356.
setSort(tb, field) ==
    _sortData(IF tb.sortField = << field >>
              THEN [tb EXCEPT !.reversed = ~@]
              ELSE [tb EXCEPT !.reversed = FALSE, !.sortField = << field >>])

\* _selectRow that leaves the flag on the row selected before.
SelectRowKeepsFlag(tb, obj) ==
    LET old == tb._selected
    IN IF old # None /\ old[1]._uid = obj._uid
       THEN [tb EXCEPT !._selected = None, !.detailSelected = << >>]
       ELSE [tb EXCEPT !._selected = << obj >>,
                       !.flagged = @ \cup { obj.oid },
                       !.detailSelected = _stringify(obj)]

\* Table._selectRow, lines 279-297.
_selectRow(tb, obj) ==
    LET old == tb._selected
        deselected == IF old # None
                      THEN [tb EXCEPT !.flagged = @ \ { old[1].oid }]
                      ELSE tb
    IN IF old # None /\ old[1]._uid = obj._uid
       THEN [deselected EXCEPT !._selected = None, !.detailSelected = << >>]
       ELSE [deselected EXCEPT !._selected = << obj >>,
                               !.flagged = @ \cup { obj.oid },
                               !.detailSelected = _stringify(obj)]

(***************************************************************************)
(* Promises                                                                *)
(***************************************************************************)
\* The state of the promise fetch.then(callback) of one fetch: pending
\* while the fetch is in flight, resolved once the callback (_setData) has
\* run, rejected when the fetch failed (lines 459, 487, 511, 531, 550-551).
ThenState(f) ==
    CASE f = "inflight" -> "pending"
      [] f = "ok"       -> "resolved"
      [] f = "failed"   -> "rejected"
      [] OTHER          -> "none"

\* Promise.all over promises in the given states: rejected as soon as one
\* of them is rejected, resolved when all are resolved.
PromiseAll(states) ==
    IF "none" \in states THEN "none"
    ELSE IF "rejected" \in states THEN "rejected"
    ELSE IF states \subseteq { "resolved" } THEN "resolved"
    ELSE "pending"

\* The promise returned by the refresh of table t in a round whose fetches
\* are in the states fs: the .then promise of the single fetch, and for the
\* entities table Promise.all([p1, p2]) (line 552).
TablePromise(fs, t) == PromiseAll({ ThenState(fs[c]) : c \in CollectionsOf(t) })

\* Promise.all(promises) of Tabs.refresh, line 722.
AggregatePromise(fs) == PromiseAll({ TablePromise(fs, t) : t \in TabNames })

\* done registered with .then alone.
DoneRunsOnSuccess(agg) == agg = "resolved"

\* Whether done runs when the aggregate settles as agg: it is registered
\* with .then and with .catch (lines 723-724).
DoneRuns(agg) == agg \in { "resolved", "rejected" }

\* The first round no fetch of table t was started in.
FreeRounds(t) == { h \in Rounds : \A c \in CollectionsOf(t) : fetchState[h][c] = "none" }

(***************************************************************************)
(* Initial states                                                          *)
(***************************************************************************)
\* The table of TableSpec.
Focus == "messages"

NoFetches == [ h \in Rounds |-> [ c \in Collections |-> "none" ] ]

\* Tabs.__init__, lines 694-705: the tables are built, and the constructor
\* ends with a call of refresh(), which clears every table and starts the
\* fetches of round 1.
Init ==
    /\ tables = [ t \in TabNames |-> Called(clear(NewTable(LargeMaxSize)), << "refresh" >>) ]
    /\ refreshing = TRUE
    /\ refreshPromise = << 1 >>
    /\ promiseState = [ h \in Rounds |-> IF h = 1 THEN "pending" ELSE "none" ]
    /\ fetchState = [ NoFetches EXCEPT ![1] = [ c \in Collections |-> "inflight" ] ]
    /\ returned = << 1 >>
    /\ searcher = NewSearcher
    /\ searchCall = None

\* A Table on its own, after Table.__init__ (lines 245-263); no Tabs object
\* drives it.
TableInit ==
    /\ \E m \in MaxSizes : tables = [ t \in { Focus } |-> NewTable(m) ]
    /\ refreshing = FALSE
    /\ refreshPromise = None
    /\ promiseState = [ h \in Rounds |-> "none" ]
    /\ fetchState = NoFetches
    /\ returned = None
    /\ searcher = NewSearcher
    /\ searchCall = None

\* A Table that holds the rows of one completed refresh: Table.__init__,
\* refresh() and the completion of its fetch with some batch.
LoadedInit ==
    /\ \E m \in MaxSizes, batch \in Batches :
          tables = [ t \in { Focus } |->
                       Called(_setData(Called(clear(NewTable(m)), << "refresh" >>),
                                       MakeRows(batch, 1, "messages"), TRUE),
                              << "_setData", batch, TRUE >>) ]
    /\ refreshing = FALSE
    /\ refreshPromise = None
    /\ promiseState = [ h \in Rounds |-> "none" ]
    /\ fetchState = [NoFetches EXCEPT ![1]["messages"] = "ok"]
    /\ returned = None
    /\ searcher = NewSearcher
    /\ searchCall = None

\* A Searcher on its own, after Searcher.__init__ (lines 628-630); there are
\* no tables.
SearcherInit ==
    /\ tables = << >>
    /\ refreshing = FALSE
    /\ refreshPromise = None
    /\ promiseState = [ h \in Rounds |-> "none" ]
    /\ fetchState = NoFetches
    /\ returned = None
    /\ searcher = NewSearcher
    /\ searchCall = None

(***************************************************************************)
(* Tabs.refresh and the completion of fetches                              *)
(***************************************************************************)
\* Tabs.refresh without the test of the flag (lines 711-712).
RefreshUnguarded ==
    LET h == IF refreshPromise = None THEN 1 ELSE refreshPromise[1] + 1
    IN /\ h \in Rounds
       /\ refreshing' = TRUE
       /\ tables' = [ t \in TabNames |-> Called(clear(tables[t]), << "refresh" >>) ]
       /\ fetchState' = [fetchState EXCEPT ![h] = [ c \in Collections |-> "inflight" ]]
       /\ promiseState' = [promiseState EXCEPT ![h] = "pending"]
       /\ refreshPromise' = << h >>
       /\ returned' = << h >>
       /\ UNCHANGED searchVars

\* Tabs.refresh, lines 707-725.
Refresh ==
    IF refreshing
    THEN /\ returned' = refreshPromise
         /\ UNCHANGED << tables, refreshing, refreshPromise, promiseState, fetchState >>
         /\ UNCHANGED searchVars
    ELSE LET h == IF refreshPromise = None THEN 1 ELSE refreshPromise[1] + 1
         IN /\ h \in Rounds
            /\ refreshing' = TRUE
            /\ tables' = [ t \in TabNames |-> Called(clear(tables[t]), << "refresh" >>) ]
            /\ fetchState' = [fetchState EXCEPT ![h] = [ c \in Collections |-> "inflight" ]]
            /\ promiseState' = [promiseState EXCEPT ![h] = "pending"]
            /\ refreshPromise' = << h >>
            /\ returned' = << h >>
            /\ UNCHANGED searchVars

\* What the settling of a fetch of round h does to the aggregate promise of
\* that round and, through done (lines 719-720), to the flag.
SettleAggregate(h, fs) ==
    LET agg == AggregatePromise(fs)
    IN IF promiseState[h] = "pending" /\ agg # "pending"
       THEN /\ promiseState' = [promiseState EXCEPT ![h] = agg]
            /\ refreshing' = IF DoneRuns(agg) THEN FALSE ELSE refreshing
       ELSE UNCHANGED << promiseState, refreshing >>

\* The fetch of collection c started in round h succeeds with the rows of
\* batch: the .then callback runs _setData on the table (lines 459, 487,
\* 511, 531, 550, 551), then the promises that wait for it settle.
FetchOk(h, c, batch) ==
    /\ fetchState[h][c] = "inflight"
    /\ tables' = [tables EXCEPT
                    ![TableOf(c)] = Called(_setData(@, MakeRows(batch, h, c), ClearArg(c)),
                                           << "_setData", batch, ClearArg(c) >>)]
    /\ fetchState' = [fetchState EXCEPT ![h][c] = "ok"]
    /\ SettleAggregate(h, fetchState'[h])
    /\ UNCHANGED << refreshPromise, returned, searcher, searchCall >>

FailedFetches == { hc \in Rounds \X Collections : fetchState[hc[1]][hc[2]] = "failed" }

\* The fetch fails: the callback does not run and the rejection propagates
\* to the promises that wait for it.
FetchFail(h, c) ==
    /\ fetchState[h][c] = "inflight"
    /\ Cardinality(FailedFetches) < MaxFailures
    /\ fetchState' = [fetchState EXCEPT ![h][c] = "failed"]
    /\ SettleAggregate(h, fetchState'[h])
    /\ UNCHANGED << tables, refreshPromise, returned, searcher, searchCall >>

(***************************************************************************)
(* Operations on one table                                                 *)
(***************************************************************************)
\* The refresh of the table of tab t (MessagesTable.refresh, lines 528-531,
\* and its siblings): clear, then start the fetch.
TableRefresh(t) ==
    /\ FreeRounds(t) # {}
    /\ LET h == CHOOSE r \in FreeRounds(t) : \A q \in FreeRounds(t) : r <= q
       IN /\ tables' = [tables EXCEPT ![t] = Called(clear(@), << "refresh" >>)]
          /\ fetchState' = [fetchState EXCEPT
                ![h] = [ c \in Collections |->
                            IF c \in CollectionsOf(t) THEN "inflight" ELSE @[c] ]]
    /\ UNCHANGED << tabsVars, searchVars >>

\* The filter functions: None, and one predicate for every set of uids.
Uids == { p.uid : p \in Payloads }

FilterFuncs == { None } \cup { << [accepts |-> S] >> : S \in SUBSET Uids }

SetFilter(t, func) ==
    /\ tables' = [tables EXCEPT ![t] = Called(setFilter(@, func), << "setFilter", func >>)]
    /\ UNCHANGED << fetchState, refreshing, refreshPromise, promiseState, returned,
                    searcher, searchCall >>

\* A click on the header of a column (lines 401-402).
SetSort(t, field) ==
    /\ tables' = [tables EXCEPT ![t] = Called(setSort(@, field), << "setSort", field >>)]
    /\ UNCHANGED << fetchState, refreshing, refreshPromise, promiseState, returned,
                    searcher, searchCall >>

\* A click on the i-th displayed row (lines 418-427).
SelectRow(t, i) ==
    /\ i \in 1..Len(tables[t]._shownData)
    /\ tables' = [tables EXCEPT
                    ![t] = Called(_selectRow(@, @._shownData[i]),
                                  << "_selectRow", @._shownData[i] >>)]
    /\ UNCHANGED << fetchState, refreshing, refreshPromise, promiseState, returned,
                    searcher, searchCall >>

(***************************************************************************)
(* Operations on the Searcher                                              *)
(***************************************************************************)
Exact == << "E", "x", "a", "c", "t" >>

\* The texts given to setSearch: no text (null), the empty text, a word in
\* three spellings, quoted and not, parts of it, a digit, and quotes alone.
Terms ==
    { None, << << >> >>, << Exact >>, << lower(Exact) >>,
      << << "E", "X", "A", "C", "T" >> >>,
      << << Quote >> \o Exact \o << Quote >> >>,
      << << Quote >> \o lower(Exact) \o << Quote >> >>,
      << << Quote, Quote >> >>, << << Quote >> \o Exact >>,
      << << "A", "c" >> >>, << << "1" >> >> }

\* The values given to _checkPrimitive.
Items ==
    { Str(Exact), Str(lower(Exact)), Str(<< "E", "X", "A", "C", "T" >>),
      Str(<< "i", "n" >> \o Exact \o << "s" >>),
      Str(<< "I", "N" >> \o lower(Exact)),
      Str(<< "e", "x" >>), Str(<< "1" >>), Str(<< >>),
      Num(1), Bool(TRUE), Null }

\* Names of keys.
kName == << "n", "a", "m", "e" >>

kData == << "d", "a", "t", "a" >>

kKeys == << "k", "e", "y", "s" >>

kHidden == << "_", "h", "i", "d" >>

\* The rows given to search: strings at the top, in nested mappings and in
\* nested lists, behind private keys at the top and below it, leaves that
\* are no strings, and rows of other shapes.
SearchRows ==
    { Dict(<< kName >>, << Str(Exact) >>),
      Dict(<< kHidden >>, << Str(Exact) >>),
      Dict(<< kHidden, kName >>, << Str(lower(Exact)), Str(<< "e", "x" >>) >>),
      Dict(<< kData >>, << Dict(<< kName >>, << Str(lower(Exact)) >>) >>),
      Dict(<< kData >>, << Dict(<< kHidden, kKeys >>, << Str(Exact), Num(1) >>) >>),
      Dict(<< kHidden >>, << Dict(<< kName >>, << Str(Exact) >>) >>),
      Dict(<< kKeys >>, << List(<< Str(<< "E", "X", "A", "C", "T" >>), Num(1) >>) >>),
      Dict(<< kKeys >>, << List(<< List(<< Str(Exact) >>), Null >>) >>),
      Dict(<< kKeys >>, << List(<< Dict(<< kName >>, << Str(Exact) >>) >>) >>),
      Dict(<< kKeys >>, << List(<< Dict(<< kHidden >>, << Str(Exact) >>) >>) >>),
      Dict(<< kName, kData, kKeys >>, << Num(1), Bool(TRUE), Null >>),
      Dict(<< kName, kData >>, << Str(<< "1" >>), List(<< >>) >>),
      Dict(<< kData >>, << Dict(<< >>, << >>) >>),
      Dict(<< >>, << >>) }

SetSearch(term) ==
    /\ searcher' = setSearch(searcher, term)
    /\ searchCall' = << "setSearch", term >>
    /\ UNCHANGED << tables, fetchState, tabsVars >>

\* A call of _checkPrimitive; the methods that look for the term are
\* called once a term is set (lines 743-746).
CheckPrimitive(item) ==
    /\ searcher.searchTerm # None
    /\ searchCall' = << "_checkPrimitive", item, _checkPrimitive(searcher, item) >>
    /\ UNCHANGED << searcher, tables, fetchState, tabsVars >>

Search(row) ==
    /\ searcher.searchTerm # None
    /\ searchCall' = << "search", row, search(searcher, row) >>
    /\ UNCHANGED << searcher, tables, fetchState, tabsVars >>

(***************************************************************************)
(* Searching the tables (Tabs.searchAll, Tabs.searchCurrent)               *)
(***************************************************************************)
\* The texts of the search box: empty, a uid of an agent, and a uid of a
\* message in upper case.
Texts == { << >>, << "a" >>, << "H" >> }

\* func is the bound method searcher.search.
IsBoundSearch(func) == func # None /\ "self" \in DOMAIN func[1]

\* The searcher is one object: once setSearch has changed it to s, the
\* bound method a table holds as its filter is the method of the searcher
\* in state s.
Aliased(tb, s) ==
    IF IsBoundSearch(tb.filter) THEN [tb EXCEPT !.filter = << BoundSearch(s) >>] ELSE tb

\* Tabs.searchAll, lines 738-747; text is the value of the search box.
SearchAll(text) ==
    LET s == setSearch(searcher, << text >>)
    IN /\ searcher' = s
       /\ searchCall' = << "setSearch", << text >> >>
       /\ tables' = [ t \in TabNames |->
                        Called(setFilter(Aliased(tables[t], s), << BoundSearch(s) >>),
                               << "setFilter", << BoundSearch(s) >>,
                                  << "searchAll", text >> >>) ]
       /\ UNCHANGED << fetchState, tabsVars >>

\* Tabs.searchCurrent, lines 749-764; active is the Data_tab of the tab
\* that Tabs.currentTab (lines 727-736) finds marked active in the menu.
SearchCurrent(text, active) ==
    LET s == setSearch(searcher, << text >>)
    IN /\ searcher' = s
       /\ searchCall' = << "setSearch", << text >> >>
       /\ tables' = [ t \in TabNames |->
                        IF text # << >> /\ t = active
                        THEN Called(setFilter(Aliased(tables[t], s), << BoundSearch(s) >>),
                                    << "setFilter", << BoundSearch(s) >>,
                                       << "searchCurrent", text, active >> >>)
                        ELSE Called(setFilter(Aliased(tables[t], s), None),
                                    << "setFilter", None,
                                       << "searchCurrent", text, active >> >>) ]
       /\ UNCHANGED << fetchState, tabsVars >>

(***************************************************************************)
(* Specifications                                                          *)
(***************************************************************************)
\* The page: the refresh button and the answers of the server.
Next ==
    \/ Refresh
    \/ \E h \in Rounds, c \in Collections : FetchOk(h, c, ServerRows(c))
    \/ \E h \in Rounds, c \in Collections : FetchFail(h, c)

Spec == Init /\ [][Next]_vars

\* The page over an empty database: every collection the server holds is
\* empty, and every fetch in flight is answered or fails in the end.
EmptyNext ==
    \/ Refresh
    \/ \E h \in Rounds, c \in Collections : FetchOk(h, c, << >>)
    \/ \E h \in Rounds, c \in Collections : FetchFail(h, c)

FetchSettles == \E h \in Rounds, c \in Collections :
                    FetchOk(h, c, << >>) \/ FetchFail(h, c)

FairSpec == Init /\ [][EmptyNext]_vars /\ WF_vars(FetchSettles)

\* One table (the messages table) driven through its own operations.
TableNext ==
    \/ TableRefresh(Focus)
    \/ \E h \in Rounds, batch \in Batches : FetchOk(h, "messages", batch)
    \/ \E h \in Rounds : FetchFail(h, "messages")
    \/ \E func \in FilterFuncs : SetFilter(Focus, func)
    \/ \E field \in FieldNames : SetSort(Focus, field)
    \/ \E i \in 1..MaxBatch : SelectRow(Focus, i)

TableSpec == TableInit /\ [][TableNext]_vars

\* One table whose data is fixed: the rows are displayed, filtered, sorted
\* and clicked, and no refresh replaces them.
SelectNext ==
    \/ \E i \in 1..MaxBatch : SelectRow(Focus, i)
    \/ \E func \in FilterFuncs : SetFilter(Focus, func)
    \/ \E field \in FieldNames : SetSort(Focus, field)

SelectSpec == LoadedInit /\ [][SelectNext]_vars

\* A Searcher on its own: texts are set and values are searched.
SearcherNext ==
    \/ \E term \in Terms : SetSearch(term)
    \/ \E item \in Items : CheckPrimitive(item)
    \/ \E row \in SearchRows : Search(row)

SearcherSpec == SearcherInit /\ [][SearcherNext]_vars

\* The page with its search box: refreshes, the answers of the server, and
\* searches in all tabs or in the active one.
PageNext ==
    \/ Refresh
    \/ \E h \in Rounds, c \in Collections : FetchOk(h, c, ServerRows(c))
    \/ \E text \in Texts : SearchAll(text)
    \/ \E text \in Texts, active \in TabNames : SearchCurrent(text, active)

PageSpec == Init /\ [][PageNext]_vars

(***************************************************************************)
(* Tabs.refresh: properties of the coordinator (Spec, FairSpec)            *)
(***************************************************************************)
Settled == { "resolved", "rejected" }

\* The aggregate promise Tabs holds is still pending.
AggregatePending ==
    refreshPromise # None /\ promiseState[refreshPromise[1]] = "pending"

\* C1: a call of refresh() made while the aggregate refresh is pending
\* starts no table refresh (no table is cleared, no fetch is started) and
\* returns the handle of the pending aggregate, the one the call that
\* started it returned; a call made once the aggregate has settled clears
\* the tables, starts the fetches of a new round and returns a new handle.
C1_RefreshGuard ==
    /\ [](returned = refreshPromise)
    /\ [][ Refresh =>
          IF AggregatePending
          THEN /\ returned' = refreshPromise
               /\ returned' = returned
               /\ UNCHANGED << refreshPromise, fetchState, tables, promiseState >>
          ELSE /\ refreshPromise' # refreshPromise
               /\ promiseState[refreshPromise'[1]] = "none"
               /\ promiseState'[refreshPromise'[1]] = "pending"
               /\ returned' = refreshPromise'
               /\ refreshing'
               /\ \A c \in Collections :
                     /\ fetchState[refreshPromise'[1]][c] = "none"
                     /\ fetchState'[refreshPromise'[1]][c] = "inflight"
               /\ \A t \in TabNames : tables'[t].data = << >> ]_vars

\* A second round was started by a call made after the first aggregate had
\* resolved, and that call returned the new handle.
C1_Witness ==
    /\ promiseState[1] = "resolved"
    /\ refreshPromise = << 2 >>
    /\ returned = << 2 >>
    /\ promiseState[2] = "pending"

\* C2: the flag is cleared when the aggregate ends, by success or by
\* failure: whenever Tabs is refreshing, the flag becomes false again
\* (every fetch being answered in the end), and the flag is false whenever
\* the aggregate Tabs holds has settled.
C2_FlagCleared ==
    /\ refreshing ~> ~refreshing
    /\ [](refreshPromise # None /\ promiseState[refreshPromise[1]] \in Settled
            => ~refreshing)

\* An aggregate ended by failure and the flag is cleared.
C2_Witness == promiseState[1] = "rejected" /\ ~refreshing

\* C3: an aggregate refresh is complete (its handle settled, the flag
\* cleared) only when every fetch of its round has settled.
C3_CompleteOnlyWhenAllSettled ==
    \A h \in Rounds :
        promiseState[h] \in Settled
            => \A c \in Collections : fetchState[h][c] \in { "ok", "failed" }

(***************************************************************************)
(* The composite refresh of the entities table (Spec)                      *)
(***************************************************************************)
Other(c) == IF c = "agents" THEN "things" ELSE "agents"

\* The rows of a batch as _setData leaves them in data when it appends
\* them to a table that held n rows.
Inserted(batch, h, c, n) ==
    [ i \in 1..Len(batch) |->
        [uid |-> batch[i].uid, date |-> batch[i].date, oid |-> << h, c, i >>,
         _uid |-> n + i - 1] ]

\* This step is the completion of the fetch of c in round h.
Completes(h, c) == fetchState[h][c] = "inflight" /\ fetchState'[h][c] = "ok"

\* The first of the two partial _setData calls of round h, for collection
\* c, on the table the refresh has cleared.
FirstPartial(h, c) ==
    /\ Completes(h, c)
    /\ fetchState[h][Other(c)] = "inflight"
    /\ tables["entities"].data = << >>

\* The second of the two calls: the table holds the rows of the other
\* collection of that round, and nothing else.
SecondPartial(h, c) ==
    /\ Completes(h, c)
    /\ fetchState[h][Other(c)] = "ok"
    /\ tables["entities"].data =
          Inserted(ServerRows(Other(c)), h, Other(c), 0)

\* The totals and ids the two calls leave, in either order of completion.
C7_Totals(h, c) ==
    LET first  == ServerRows(Other(c))
        second == ServerRows(c)
        tb     == tables'["entities"]
    IN /\ FirstPartial(h, c) =>
            /\ tables'["entities"].total = Len(second)
            /\ tables'["entities"].data = Inserted(second, h, c, 0)
       /\ SecondPartial(h, c) =>
            /\ tb.total = Len(first) + Len(second)
            /\ tb.data = Inserted(first, h, Other(c), 0)
                            \o Inserted(second, h, c, Len(first))
            /\ \A i \in 1..Len(tb.data) : tb.data[i]._uid = i - 1

\* The promise of the table's refresh resolves only when both fetches have
\* completed.
C7_ResolvesWhenBoth ==
    \A h \in Rounds :
        TablePromise(fetchState[h], "entities") = "resolved"
            => fetchState[h]["agents"] = "ok" /\ fetchState[h]["things"] = "ok"

\* C7 as stated: the two partial calls leave the sum of both batches with
\* ids 0..total-1, the table's refresh resolves only when both fetches have
\* completed, and the shown rows are computed once, after both have
\* completed: the first call leaves them as they were.
C7_ShownComputedOnce ==
    /\ [][ \A h \in Rounds, c \in { "agents", "things" } :
              /\ C7_Totals(h, c)
              /\ FirstPartial(h, c) =>
                    tables'["entities"]._shownData = tables["entities"]._shownData ]_vars
    /\ []C7_ResolvesWhenBoth

\* C7, amended: as above, but the shown rows are computed after each of the
\* two calls: after the first they are the rows of that batch, after the
\* second the rows of both (max_size is not reached).
C7_ShownComputedTwice ==
    /\ [][ \A h \in Rounds, c \in { "agents", "things" } :
              /\ C7_Totals(h, c)
              /\ FirstPartial(h, c) =>
                    /\ tables'["entities"]._shownData = tables'["entities"].data
                    /\ tables'["entities"].shown = Len(ServerRows(c))
              /\ SecondPartial(h, c) =>
                    /\ tables'["entities"]._shownData = tables'["entities"].data
                    /\ tables'["entities"].shown
                          = Len(ServerRows(c)) + Len(ServerRows(Other(c))) ]_vars
    /\ []C7_ResolvesWhenBoth

\* Both fetches of a round have completed, things first: five rows, ids
\* 0..4, all shown.
C7_Witness ==
    LET tb == tables["entities"]
    IN /\ fetchState[1]["agents"] = "ok" /\ fetchState[1]["things"] = "ok"
       /\ tb.total = 5
       /\ tb.shown = 5
       /\ [ i \in 1..5 |-> tb.data[i]._uid ] = << 0, 1, 2, 3, 4 >>
       /\ tb.data[1].uid = "d"

(***************************************************************************)
(* Table: properties of one table (TableSpec)                              *)
(***************************************************************************)
RowsOf(seq) == { seq[i] : i \in 1..Len(seq) }

\* C4: in every state of a table, also between the start of a refresh and
\* the completion of its fetch, every shown row is a row of data and at
\* most max_size rows are shown.
C4_ShownWithinData ==
    LET tb == tables[Focus]
    IN /\ RowsOf(tb._shownData) \subseteq RowsOf(tb.data)
       /\ Len(tb._shownData) <= tb.max_size
       /\ tb.shown <= tb.max_size

\* C5: in every state of a table the selected row, if there is one, is a
\* row of data.
C5_SelectedInData ==
    LET tb == tables[Focus]
    IN tb._selected # None => tb._selected[1] \in RowsOf(tb.data)

\* C6: after every _setData call with clear=True (the callback of a
\* completed fetch of the messages table), whatever calls came before, the
\* table holds as many rows as the batch of that call (data and total) and
\* they are the rows of the batch, in batch order, with the ids 0, 1, 2, ...
C6_ClearingSetData ==
    LET tb == tables[Focus]
    IN (tb.lastCall[1] = "_setData" /\ tb.lastCall[3]) =>
          LET batch == tb.lastCall[2]
          IN /\ tb.total = Len(batch)
             /\ Len(tb.data) = Len(batch)
             /\ \A i \in 1..Len(batch) :
                   /\ tb.data[i]._uid = i - 1
                   /\ tb.data[i].uid = batch[i].uid
                   /\ tb.data[i].date = batch[i].date

\* A second clearing call has replaced a batch by a longer one: three rows
\* delivered by the second fetch, numbered from 0.
C6_Witness ==
    LET tb == tables[Focus]
    IN /\ fetchState[1]["messages"] = "ok" /\ fetchState[2]["messages"] = "ok"
       /\ tb.lastCall[1] = "_setData"
       /\ tb.total = 3
       /\ \A i \in 1..3 : tb.data[i].oid[1] = 2 /\ tb.data[i]._uid = i - 1

\* The places in data of the rows the filter accepts, and of the first
\* max_size of them.
Accepted(tb) ==
    { i \in 1..Len(tb.data) : tb.filter = None \/ ApplyFilter(tb.filter[1], tb.data[i]) }

FirstAccepted(tb) ==
    { i \in Accepted(tb) : Cardinality({ j \in Accepted(tb) : j <= i }) <= tb.max_size }

\* The shown rows are the first max_size rows of data the filter accepts:
\* none of them is missing, no other row is shown, their number is
\* min(max_size, number of accepted rows), and with no sort field they are
\* in insertion order.
ShownIsFilteredPrefix(tb) ==
    LET n == Cardinality(Accepted(tb))
    IN /\ RowsOf(tb._shownData) = { tb.data[i] : i \in FirstAccepted(tb) }
       /\ Len(tb._shownData) = (IF n <= tb.max_size THEN n ELSE tb.max_size)
       /\ tb.shown = Len(tb._shownData)
       /\ tb.sortField = None =>
             \A i, j \in 1..Len(tb._shownData) :
                i < j => tb._shownData[i]._uid < tb._shownData[j]._uid

\* C8: for every filter predicate P (None: no filter), after _setData and
\* after setFilter(P) the shown rows are exactly the first max_size rows of
\* data that satisfy P.
C8_ShownIsFilteredPrefix ==
    LET tb == tables[Focus]
    IN /\ tb.lastCall[1] = "_setData" => ShownIsFilteredPrefix(tb)
       /\ tb.lastCall[1] = "setFilter" =>
             tb.filter = tb.lastCall[2] /\ ShownIsFilteredPrefix(tb)

\* The place of row x in seq.
PlaceIn(seq, x) == CHOOSE i \in 1..Len(seq) : seq[i] = x

\* C9: setSort(F) on the current sort field toggles the direction, on
\* another field it sets the ascending direction (so two calls in a row
\* give ascending, then descending); it leaves the set of shown rows as it
\* was; and shown rows with equal values of F keep their relative order, in
\* both directions.
C9_SetSortToggleStable ==
    [][ \A field \in FieldNames :
          SetSort(Focus, field) =>
             LET tb == tables[Focus]
                 ta == tables'[Focus]
             IN /\ ta.sortField = << field >>
                /\ ta.reversed = (IF tb.sortField = << field >> THEN ~tb.reversed ELSE FALSE)
                /\ RowsOf(ta._shownData) = RowsOf(tb._shownData)
                /\ Len(ta._shownData) = Len(tb._shownData)
                /\ \A i, j \in 1..Len(tb._shownData) :
                      (i < j /\ _getField(tb._shownData[i], field)
                                   = _getField(tb._shownData[j], field))
                         => PlaceIn(ta._shownData, tb._shownData[i])
                               < PlaceIn(ta._shownData, tb._shownData[j]) ]_vars

\* The second of two setSort(date) calls has run on rows a and c of equal
\* date: the direction is descending and a is still in front of c.
C9_Witness ==
    LET tb == tables[Focus]
    IN /\ tb.lastCall = << "setSort", "date" >>
       /\ tb.sortField = << "date" >> /\ tb.reversed
       /\ Len(tb._shownData) >= 2
       /\ tb._shownData[1].uid = "a" /\ tb._shownData[2].uid = "c"
       /\ tb._shownData[1].date = tb._shownData[2].date
       /\ tb._shownData[1]._uid < tb._shownData[2]._uid

\* seq is ordered by the values of field: ascending, or descending when
\* rev.
Ordered(seq, field, rev) ==
    \A i, j \in 1..Len(seq) :
        i < j => IF rev
                 THEN ValueLE(field, _getField(seq[j], field), _getField(seq[i], field))
                 ELSE ValueLE(field, _getField(seq[i], field), _getField(seq[j], field))

\* The uid and date of the rows of seq.
PayloadOf(seq) == [ i \in 1..Len(seq) |-> [uid |-> seq[i].uid, date |-> seq[i].date] ]

UidsOf(seq) == [ i \in 1..Len(seq) |-> seq[i].uid ]

Scenario == << [uid |-> "a", date |-> 1], [uid |-> "b", date |-> 3],
               [uid |-> "c", date |-> 2] >>

\* C10: in every state in which a sort field is set the shown rows are
\* ordered by the value of that field, ascending when the direction is not
\* reversed and descending when it is; for the rows a:1, b:3, c:2 (all
\* shown) sorted by date the order is a, c, b, and reversed b, c, a.
C10_ShownOrdered ==
    LET tb == tables[Focus]
    IN /\ tb.sortField # None => Ordered(tb._shownData, tb.sortField[1], tb.reversed)
       /\ (/\ PayloadOf(tb.data) = Scenario
           /\ tb.filter = None
           /\ tb.max_size >= 3
           /\ tb.sortField = << "date" >>)
          => UidsOf(tb._shownData) = (IF tb.reversed THEN << "b", "c", "a" >>
                                      ELSE << "a", "c", "b" >>)

\* The scenario after the second setSort(date): b, c, a.
C10_Witness ==
    LET tb == tables[Focus]
    IN /\ PayloadOf(tb.data) = Scenario
       /\ tb.sortField = << "date" >> /\ tb.reversed
       /\ UidsOf(tb._shownData) = << "b", "c", "a" >>

(***************************************************************************)
(* Row selection on a fixed data set (SelectSpec)                          *)
(***************************************************************************)
\* C11: on a fixed data set at most one row is flagged selected after any
\* sequence of row selections; selecting the row that is selected clears
\* the selection (detailSelected is empty and no row is flagged); selecting
\* another row B (after a row A, or with no selection) leaves only B flagged
\* and detailSelected equal to the serialization of B.
C11_RowSelection ==
    /\ [](Cardinality(tables[Focus].flagged) <= 1)
    /\ [][ \A i \in 1..MaxBatch :
             SelectRow(Focus, i) =>
                LET tb  == tables[Focus]
                    ta  == tables'[Focus]
                    obj == tb._shownData[i]
                IN IF obj.oid \in tb.flagged
                   THEN /\ ta._selected = None
                        /\ ta.detailSelected = << >>
                        /\ ta.flagged = {}
                   ELSE /\ ta._selected = << obj >>
                        /\ ta.flagged = { obj.oid }
                        /\ ta.detailSelected = << "uid", obj.uid, "date", obj.date >> ]_vars

\* A click on the selected row of a table of three rows has cleared the
\* selection.
C11_Witness ==
    LET tb == tables[Focus]
    IN /\ fetchState[2]["messages"] = "none"
       /\ Len(tb.data) = 3
       /\ tb.lastCall[1] = "_selectRow"
       /\ tb._selected = None
       /\ tb.flagged = {}
       /\ tb.detailSelected = << >>

(***************************************************************************)
(* Searcher (SearcherSpec)                                                 *)
(***************************************************************************)
\* The text is wrapped in double quotes.
Quoted(t) == Len(t) >= 2 /\ t[1] = Quote /\ t[Len(t)] = Quote

\* Two strings that differ at most in the case of their letters.
SameButCase(x, y) == lower(x) = lower(y)

\* The parts of a string.
Parts(hay) ==
    { [ k \in 1..(j - i) |-> hay[i + k] ] : i, j \in 0..Len(hay) }

\* x is a part of hay.
PartOf(x, hay) == x \in Parts(hay)

\* C12: setSearch of no text (null) sets the term to the empty string;
\* setSearch of a text wrapped in double quotes strips the quotes and makes
\* matching case-sensitive: a field matches exactly when the term is a part
\* of it as spelled ("Exact" matches a field containing "Exact", and no
\* field that contains it only in another case); setSearch of an unquoted
\* text lower-cases it, and a field matches when it contains the term in
\* any case ("exact" matches "EXACT", "Exact" and "exact").
C12_SearcherCase ==
    /\ searchCall # None /\ searchCall[1] = "setSearch" =>
          LET term == searchCall[2]
          IN /\ term = None =>
                   searcher.searchTerm = << << >> >> /\ ~searcher.caseSensitive
             /\ (term # None /\ Quoted(term[1])) =>
                   /\ searcher.caseSensitive
                   /\ << Quote >> \o searcher.searchTerm[1] \o << Quote >> = term[1]
             /\ (term # None /\ ~Quoted(term[1]) /\ term[1] # << Quote >>) =>
                   /\ ~searcher.caseSensitive
                   /\ SameButCase(searcher.searchTerm[1], term[1])
                   /\ \A i \in 1..Len(term[1]) :
                         searcher.searchTerm[1][i] \notin { "A", "C", "E", "T", "X" }
    /\ searchCall # None /\ searchCall[1] = "_checkPrimitive" =>
          LET item   == searchCall[2]
              result == searchCall[3]
              term   == searcher.searchTerm[1]
          IN /\ item.type # "str" => ~result
             /\ (item.type = "str" /\ searcher.caseSensitive) =>
                   (result <=> PartOf(term, item.str))
             /\ (item.type = "str" /\ ~searcher.caseSensitive) =>
                   (result <=> \E x \in Parts(item.str) : SameButCase(x, term))
             /\ (searcher.caseSensitive /\ term = Exact) =>
                   /\ item = Str(Exact) => result
                   /\ item \in { Str(lower(Exact)), Str(<< "E", "X", "A", "C", "T" >>) }
                         => ~result
             /\ (~searcher.caseSensitive /\ term = lower(Exact)) =>
                   (item \in { Str(lower(Exact)), Str(Exact),
                               Str(<< "E", "X", "A", "C", "T" >>) } => result)

\* After setSearch of the quoted "Exact" a field spelled "EXACT" was
\* checked and did not match.
C12_Witness ==
    /\ searcher = [searchTerm |-> << Exact >>, caseSensitive |-> TRUE]
    /\ searchCall = << "_checkPrimitive", Str(<< "E", "X", "A", "C", "T" >>), FALSE >>

\* The strings reachable from a value through mappings and lists without
\* passing through a key that starts with an underscore.
RECURSIVE ReachableStrings(_)
ReachableStrings(v) ==
    CASE v.type = "str"  -> { v.str }
      [] v.type = "list" -> UNION { ReachableStrings(v.items[i]) : i \in 1..Len(v.items) }
      [] v.type = "dict" -> UNION { ReachableStrings(v.items[i]) :
                                       i \in { k \in 1..Len(v.keys) : v.keys[k][1] # "_" } }
      [] OTHER           -> {}

\* C15: search(row) is a boolean for every row, and it is true exactly when
\* the current term is a part of some string (lower-cased unless matching
\* is case-sensitive) reachable from the row through nested mappings and
\* lists without passing through a key that starts with an underscore;
\* values that are no strings never match.
C15_SearchRecursive ==
    searchCall # None /\ searchCall[1] = "search" =>
        LET row    == searchCall[2]
            result == searchCall[3]
            term   == searcher.searchTerm[1]
        IN /\ result \in BOOLEAN
           /\ result <=> \E x \in ReachableStrings(row) :
                            PartOf(term, IF searcher.caseSensitive THEN x ELSE lower(x))

\* The term exact was searched in a row that holds "Exact" only behind a
\* private key of a nested mapping, next to a number: no match.
C15_Witness ==
    /\ searcher = [searchTerm |-> << lower(Exact) >>, caseSensitive |-> FALSE]
    /\ searchCall = << "search",
                       Dict(<< kData >>, << Dict(<< kHidden, kKeys >>, << Str(Exact), Num(1) >>) >>),
                       FALSE >>

(***************************************************************************)
(* Searching the tables (PageSpec)                                         *)
(***************************************************************************)
\* The row matches the text of the search box: its uid (the one string a
\* row holds) contains the text, as spelled when the text is quoted and in
\* any case when it is not.
RowMatches(row, text) ==
    IF Quoted(text)
    THEN PartOf(SubSeq(text, 2, Len(text) - 1), << row.uid >>)
    ELSE \E x \in Parts(<< row.uid >>) : SameButCase(x, text)

\* The shown rows are the first max_size rows of data in places, and only
\* them.
ShownArePlaces(tb, places) ==
    LET first == { i \in places : Cardinality({ j \in places : j <= i }) <= tb.max_size }
    IN /\ RowsOf(tb._shownData) = { tb.data[i] : i \in first }
       /\ Len(tb._shownData) = Cardinality(first)
       /\ tb.shown = Cardinality(first)

\* C13: after every searchAll call, also one that follows a searchAll or
\* searchCurrent made with another text, every table has the search
\* predicate as its filter and shows the (capped) rows of its data that
\* match the text the search box held at the call.
C13_SearchAllShowsMatches ==
    \A t \in TabNames :
        LET tb == tables[t]
        IN (tb.lastCall[1] = "setFilter" /\ tb.lastCall[3][1] = "searchAll") =>
              /\ tb.filter = << BoundSearch(searcher) >>
              /\ ShownArePlaces(tb, { i \in 1..Len(tb.data) :
                                        RowMatches(tb.data[i], tb.lastCall[3][2]) })

\* C14: after searchCurrent with a text that is not empty the table of the
\* active tab has the search predicate as its filter and every other table
\* has no filter and shows all its rows up to the cap; after searchCurrent
\* with the empty text every table, the one of the active tab too, has no
\* filter and shows all its rows up to the cap.
C14_SearchCurrentFrame ==
    \A t \in TabNames :
        LET tb == tables[t]
        IN (tb.lastCall[1] = "setFilter" /\ tb.lastCall[3][1] = "searchCurrent") =>
              IF tb.lastCall[3][2] # << >> /\ t = tb.lastCall[3][3]
              THEN tb.filter = << BoundSearch(searcher) >>
              ELSE /\ tb.filter = None
                   /\ ShownArePlaces(tb, 1..Len(tb.data))

(***************************************************************************)
(* Selection across refreshes (TableSpec)                                  *)
(***************************************************************************)
\* C16: in every reachable state, also after a refresh has replaced the
\* rows (numbered from 0 again) while a row was selected, a click on a row
\* of data that is not flagged selected makes it the selected row, the only
\* flagged one, with detailSelected equal to its serialization.
C16_SelectUnflaggedSelects ==
    [][ \A i \in 1..MaxBatch :
          SelectRow(Focus, i) =>
             LET tb  == tables[Focus]
                 ta  == tables'[Focus]
                 obj == tb._shownData[i]
             IN (obj \in RowsOf(tb.data) /\ obj.oid \notin tb.flagged) =>
                   /\ ta._selected = << obj >>
                   /\ ta.flagged = { obj.oid }
                   /\ ta.detailSelected = << "uid", obj.uid, "date", obj.date >> ]_vars

(***************************************************************************)
(* Fetches of an earlier round (Spec)                                      *)
(***************************************************************************)
\* The number of rows of data with the uid u.
Copies(tb, u) == Cardinality({ i \in 1..Len(tb.data) : tb.data[i].uid = u })

\* C17: at most one fetch of a collection is in flight for the entities
\* table at any time, and whenever no fetch is in flight the table holds
\* no agent and no thing twice, and exactly once each agent and each thing
\* that the last refresh fetched.
C17_FetchedOnce ==
    LET tb == tables["entities"]
    IN /\ \A c \in CollectionsOf("entities") :
             Cardinality({ h \in Rounds : fetchState[h][c] = "inflight" }) <= 1
       /\ (\A h \in Rounds, c \in Collections : fetchState[h][c] # "inflight") =>
             \A c \in CollectionsOf("entities") : \A i \in 1..Len(ServerRows(c)) :
                /\ Copies(tb, ServerRows(c)[i].uid) <= 1
                /\ fetchState[refreshPromise[1]][c] = "ok"
                      => Copies(tb, ServerRows(c)[i].uid) = 1

====
